---- MODULE Spec2Model ----
(***************************************************************************)
(* A model of monsti/form (src/form.go): a Form binds named fields to a    *)
(* data container (a pointer to a struct, or a map), Fill writes submitted *)
(* strings into the container with type coercion and validates, AddError  *)
(* appends messages, RenderData produces the snapshot handed to templates. *)
(*                                                                         *)
(* Go strings whose content the code inspects (field names, submitted      *)
(* values) are sequences of one-character strings; messages and labels,    *)
(* which the code only copies, are TLA+ strings.                           *)
(***************************************************************************)
EXTENDS Integers, Sequences, FiniteSets, TLC

VARIABLES
    Fields,     \* Form.Fields: field name -> Field{Validator, Widget}
    data,       \* Form.data: the container, shared with the caller
    errors,     \* Form.errors: key -> []string
    op,         \* the call that produced this state
    values,     \* the url.Values of the last Fill
    arg,        \* the (field, error) arguments of the last AddError
    ret,        \* how the last call ended: "true", "false", "panic", "done"
    preData,    \* the container before the last call
    preErrors,  \* the error map before the last call
    prev,       \* for a RenderData call, the call before it
    snapshot,   \* the RenderData value the last RenderData call returned
    calls       \* the number of Fill and AddError calls so far

vars == <<Fields, data, errors, op, values, arg, ret, preData, preErrors, prev,
          snapshot, calls>>

----------------------------------------------------------------------------
(* Strings *)

sEmpty == <<>>
sName == <<"N", "a", "m", "e">>
sAge == <<"A", "g", "e">>
sAGE == <<"A", "G", "E">>
sFlag == <<"F", "l", "a", "g">>
sExtra == <<"E", "x", "t", "r", "a">>
sExtraField == <<"E", "x", "t", "r", "a", "F", "i", "e", "l", "d">>
sNumber == <<"N", "u", "m", "b", "e", "r">>
sTitle == <<"T", "i", "t", "l", "e">>
sFoo == <<"F", "o", "o">>
sBar == <<"B", "a", "r">>
sCount == <<"C", "o", "u", "n", "t">>
sMissing == <<"M", "i", "s", "s", "i", "n", "g">>

Dot(a, b) == a \o <<".">> \o b

\* The index of the first "." of s, 0 when there is none.
DotIndex(s) ==
    IF \E i \in 1..Len(s) : s[i] = "."
    THEN CHOOSE i \in 1..Len(s) : s[i] = "." /\ \A j \in 1..(i - 1) : s[j] # "."
    ELSE 0

\* strings.Split(field, "."): the segments between the dots; the empty
\* string has the single segment "".
RECURSIVE Split(_)
Split(s) ==
    LET i == DotIndex(s)
    IN  IF i = 0 THEN <<s>>
        ELSE <<SubSeq(s, 1, i - 1)>> \o Split(SubSeq(s, i + 1, Len(s)))

----------------------------------------------------------------------------
(* Values of the container, with the kind reflect reports for them *)

Invalid == [kind |-> "invalid"]

StringV(s) == [kind |-> "string", s |-> s]
IntV(i) == [kind |-> "int", i |-> i]
BoolV(b) == [kind |-> "bool", b |-> b]
\* a non-nil pointer to v, of type *elem
PtrV(elem, v) == [kind |-> "ptr", elem |-> elem, isnil |-> FALSE, p |-> v]
NilPtr(elem) == [kind |-> "ptr", elem |-> elem, isnil |-> TRUE, p |-> Invalid]
\* an interface{} slot holding v
IfaceV(v) == [kind |-> "iface", isnil |-> FALSE, e |-> v]
\* a struct value: the sequence of its fields, in declaration order
StructV(fs) == [kind |-> "struct", f |-> fs]
FieldV(name, v) == [name |-> name, v |-> v]
\* a map[string]elem; elem = "iface" for map[string]interface{}
MapV(elem, entries) == [kind |-> "map", elem |-> elem, isnil |-> FALSE, m |-> entries]

\* reflect.Value: the zero Value is not valid
Value(n) == [valid |-> TRUE, n |-> n]
ZeroValue == [valid |-> FALSE, n |-> Invalid]

\* a []string: nil and the empty slice are different values
NilSlice == [isnil |-> TRUE, items |-> <<>>]
Slice(items) == [isnil |-> FALSE, items |-> items]

----------------------------------------------------------------------------
(* findNestedField *)

\* reflect.Value.FieldByName: the index of the field with exactly this name,
\* 0 when the struct has none.
FieldByName(fs, part) ==
    IF \E i \in 1..Len(fs) : fs[i].name = part
    THEN CHOOSE i \in 1..Len(fs) : fs[i].name = part
    ELSE 0

Found(v, upd) == [st |-> "ok", v |-> v, upd |-> upd]
NotFound(upd) == [st |-> "err", v |-> ZeroValue, upd |-> upd]
Panicked(upd) == [st |-> "panic", v |-> ZeroValue, upd |-> upd]

NoSet == [has |-> FALSE, v |-> Invalid]
SetTo(v) == [has |-> TRUE, v |-> v]

\* The statements after the loop of findNestedField: the write to the slot
\* found (through a fresh pointer for a pointer slot), and the unwrapping of
\* an interface value that is returned.  addr: the slot is addressable.
AfterLoop(value, addr, set) ==
    IF set.has
    THEN IF ~addr THEN Panicked(value)
         ELSE IF value.kind = "ptr"
              THEN IF set.v.kind # value.elem THEN Panicked(value)
                   ELSE Found(Value(PtrV(value.elem, set.v)), PtrV(value.elem, set.v))
         ELSE IF value.kind = "iface"
              THEN Found(Value(set.v), IfaceV(set.v))
         ELSE IF set.v.kind # value.kind THEN Panicked(value)
         ELSE Found(Value(set.v), set.v)
    ELSE IF value.kind = "iface"
         THEN Found(IF value.isnil THEN ZeroValue ELSE Value(value.e), value)
         ELSE Found(Value(value), value)

\* SetMapIndex with a bug: the entry is not replaced
SetMapIndexLost(value, part, v) == value

\* reflect.Value.SetMapIndex(part, setValue) on a map value
SetMapIndex(value, part, v) ==
    [value EXCEPT !.m = [k \in (DOMAIN value.m) \cup {part} |->
        IF k = part THEN (IF value.elem = "iface" THEN IfaceV(v) ELSE v)
        ELSE value.m[k]]]

\* The loop of findNestedField from the node `value` with the segments
\* `parts` left.  The result holds the value located (v) and the node as it
\* is after the call (upd).
RECURSIVE Walk(_, _, _, _)
Walk(value, addr, parts, set) ==
    IF parts = <<>> THEN AfterLoop(value, addr, set)
    ELSE
    LET part == Head(parts)
        setIt == Len(parts) = 1 /\ set.has
    IN  CASE value.kind \in {"ptr", "iface"} ->
             \* value.Elem() of a nil pointer or interface is the zero
             \* Value, and value.Type() of the next round panics
             IF value.isnil THEN Panicked(value)
             ELSE IF value.kind = "ptr"
                  THEN LET r == Walk(value.p, TRUE, parts, set)
                       IN  [r EXCEPT !.upd = [value EXCEPT !.p = r.upd]]
                  ELSE LET r == Walk(value.e, FALSE, parts, set)
                       IN  [r EXCEPT !.upd = [value EXCEPT !.e = r.upd]]
          [] value.kind = "struct" ->
             LET i == FieldByName(value.f, part)
             IN  IF i = 0 THEN NotFound(value)
                 ELSE LET r == Walk(value.f[i].v, addr, Tail(parts), set)
                      IN  [r EXCEPT !.upd = [value EXCEPT !.f[i].v = r.upd]]
          [] value.kind = "map" ->
             IF setIt
             THEN IF value.isnil \/ (value.elem # "iface" /\ value.elem # set.v.kind)
                  THEN Panicked(value)
                  ELSE Found(ZeroValue, SetMapIndex(value, part, set.v))
             ELSE IF value.isnil \/ part \notin DOMAIN value.m
                  THEN NotFound(value)
                  ELSE LET r == Walk(value.m[part], FALSE, Tail(parts), set)
                       IN  [r EXCEPT !.upd = [value EXCEPT !.m[part] = r.upd]]
          [] OTHER -> NotFound(value)

findNestedField(d, field, set) == Walk(d, FALSE, Split(field), set)

getNestedField(d, field) == findNestedField(d, field, NoSet)

----------------------------------------------------------------------------
(* stringToValue *)

Digits == <<"0", "1", "2", "3", "4", "5", "6", "7", "8", "9">>

\* The value of c as a digit: 0..9 for the decimal digits, 10..15 for a..f
\* in either case, and 99 (no digit of any base up to 16) for anything else.
DigitVal(c) ==
    IF \E i \in 1..Len(Digits) : Digits[i] = c
    THEN (CHOOSE i \in 1..Len(Digits) : Digits[i] = c) - 1
    ELSE CASE c \in {"a", "A"} -> 10
           [] c \in {"b", "B"} -> 11
           [] c \in {"c", "C"} -> 12
           [] c \in {"d", "D"} -> 13
           [] c \in {"e", "E"} -> 14
           [] c \in {"f", "F"} -> 15
           [] OTHER -> 99

Parsed(n) == [ok |-> TRUE, n |-> n]
ParseError == [ok |-> FALSE, n |-> 0]

\* The digit loop of strconv.ParseUint: the value of the digits of s in the
\* given base, on top of acc.
RECURSIVE ParseDigits(_, _, _)
ParseDigits(s, base, acc) ==
    IF s = <<>> THEN Parsed(acc)
    ELSE IF DigitVal(Head(s)) >= base THEN ParseError
    ELSE ParseDigits(Tail(s), base, acc * base + DigitVal(Head(s)))

\* ParseUint with a bug: every string is read in base 8
ParseUintOctal(s) ==
    IF s = <<>> THEN ParseError ELSE ParseDigits(s, 8, 0)

\* strconv.ParseUint(s, 0, 0): with base 0 the base is taken from the
\* prefix: 0b, 0o, 0x, a bare leading 0 (octal), else decimal.
ParseUint(s) ==
    IF s = <<>> THEN ParseError
    ELSE IF Head(s) = "0"
    THEN IF Len(s) >= 3 /\ s[2] \in {"b", "B"} THEN ParseDigits(SubSeq(s, 3, Len(s)), 2, 0)
         ELSE IF Len(s) >= 3 /\ s[2] \in {"o", "O"} THEN ParseDigits(SubSeq(s, 3, Len(s)), 8, 0)
         ELSE IF Len(s) >= 3 /\ s[2] \in {"x", "X"} THEN ParseDigits(SubSeq(s, 3, Len(s)), 16, 0)
         ELSE ParseDigits(Tail(s), 8, 0)
    ELSE ParseDigits(s, 10, 0)

\* strconv.ParseInt(src, 0, 0): an optional sign, then ParseUint.  (The
\* strings of this model are short, so the 64 bit range error never arises.)
Negated(u) == IF u.ok THEN Parsed(0 - u.n) ELSE ParseError

ParseInt(s) ==
    IF s = <<>> THEN ParseError
    ELSE IF Head(s) = "+" THEN ParseUint(Tail(s))
    ELSE IF Head(s) = "-" THEN Negated(ParseUint(Tail(s)))
    ELSE ParseUint(s)

\* strconv.ParseBool: b is the value, ok is false for any other string.
ParseBool(s) ==
    IF s \in {<<"1">>, <<"t">>, <<"T">>, <<"T", "R", "U", "E">>,
              <<"t", "r", "u", "e">>, <<"T", "r", "u", "e">>}
    THEN [ok |-> TRUE, b |-> TRUE]
    ELSE IF s \in {<<"0">>, <<"f">>, <<"F">>, <<"F", "A", "L", "S", "E">>,
                   <<"f", "a", "l", "s", "e">>, <<"F", "a", "l", "s", "e">>}
    THEN [ok |-> TRUE, b |-> FALSE]
    ELSE [ok |-> FALSE, b |-> FALSE]

\* case reflect.Int of stringToValue, r the result of ParseInt: 0 when the
\* string does not parse
IntResult(r) == IF ~r.ok THEN IntV(0) ELSE IntV(r.n)

IntCase(src) == IntResult(ParseInt(src))

\* case reflect.Bool of stringToValue, r the result of ParseBool: false when
\* the string does not parse
BoolResult(r) == IF ~r.ok THEN BoolV(FALSE) ELSE BoolV(r.b)

BoolCase(src) == BoolResult(ParseBool(src))

\* stringToValue(src, target), target the type of the value `of`.  (No type
\* of the model's containers implements encoding.TextUnmarshaler.)
stringToValue(src, of) ==
    LET kind == IF of.kind = "ptr" THEN of.elem ELSE of.kind
    IN  CASE kind = "string" -> [panic |-> FALSE, v |-> StringV(src)]
          [] kind = "int" -> [panic |-> FALSE, v |-> IntCase(src)]
          [] kind = "bool" -> [panic |-> FALSE, v |-> BoolCase(src)]
          [] OTHER -> [panic |-> TRUE, v |-> Invalid]

----------------------------------------------------------------------------
(* Validators *)

NoValidator == [kind |-> "nil", msg |-> ""]
Required(msg) == [kind |-> "Required", msg |-> msg]
\* a Validator of the caller that accepts every value and returns the empty
\* list []string{} for it
NoMessages == [kind |-> "NoMessages", msg |-> ""]

\* Go's == panics on a value of a type that is not comparable
RECURSIVE Comparable(_)
Comparable(n) ==
    CASE n.kind = "map" -> FALSE
      [] n.kind = "struct" -> \A i \in 1..Len(n.f) : Comparable(n.f[i].v)
      [] n.kind = "iface" -> n.isnil \/ Comparable(n.e)
      [] OTHER -> TRUE

\* value == reflect.Zero(reflect.TypeOf(value)).Interface()
RECURSIVE IsZero(_)
IsZero(n) ==
    CASE n.kind = "string" -> n.s = <<>>
      [] n.kind = "int" -> n.i = 0
      [] n.kind = "bool" -> ~n.b
      [] n.kind = "ptr" -> n.isnil
      [] n.kind = "iface" -> n.isnil
      [] n.kind = "struct" -> \A i \in 1..Len(n.f) : IsZero(n.f[i].v)
      [] OTHER -> FALSE

\* And(vs...): the validator that collects the errors of the validators vs
And(vs) == [kind |-> "And", msg |-> "", vs |-> vs]

\* The end of the function And returns: nil when the loop collected no
\* message; r is the result of the loop.
AndReturn(r) ==
    IF r.panic THEN r
    ELSE IF Len(r.errs.items) = 0 THEN [panic |-> FALSE, errs |-> NilSlice]
    ELSE r

RECURSIVE Validate(_, _)
RECURSIVE AndLoop(_, _, _)
\* The loop of And with a bug: it stops at the first validator that
\* returns messages
AndNextShortCircuit(rest, n, errs, r) ==
    IF r.panic THEN [panic |-> TRUE, errs |-> NilSlice]
    ELSE IF r.errs.items # <<>> THEN [panic |-> FALSE, errs |-> r.errs]
    ELSE AndLoop(rest, n, errs)

\* errors = append(errors, v(value)...), r the result of v(value), then the
\* rest of the loop
AndNext(rest, n, errs, r) ==
    IF r.panic THEN [panic |-> TRUE, errs |-> NilSlice]
    ELSE AndLoop(rest, n, Slice(errs.items \o r.errs.items))

\* The loop of And over its validators, errs the list collected so far.
AndLoop(vs, n, errs) ==
    IF vs = <<>> THEN [panic |-> FALSE, errs |-> errs]
    ELSE AndNext(Tail(vs), n, errs, Validate(Head(vs), n))

\* field.Validator(value.Interface())
Validate(validator, n) ==
    CASE validator.kind = "Required" ->
         IF ~Comparable(n) THEN [panic |-> TRUE, errs |-> NilSlice]
         ELSE IF IsZero(n) THEN [panic |-> FALSE, errs |-> Slice(<<validator.msg>>)]
         ELSE [panic |-> FALSE, errs |-> NilSlice]
      [] validator.kind = "NoMessages" -> [panic |-> FALSE, errs |-> Slice(<<>>)]
      [] validator.kind = "And" -> AndReturn(AndLoop(validator.vs, n, Slice(<<>>)))

----------------------------------------------------------------------------
(* The error map, a map[string][]string *)

NoErrors == [k \in {} |-> NilSlice]

\* f.errors[k]: the nil slice for a key the map does not hold
At(errs, k) == IF k \in DOMAIN errs THEN errs[k] ELSE NilSlice

\* f.errors[k] = v
Put(errs, k, v) == [x \in (DOMAIN errs) \cup {k} |-> IF x = k THEN v ELSE errs[x]]

----------------------------------------------------------------------------
(* Fill and validate *)

\* The end of setNestedField: w is the result of the second
\* findNestedField, which wrote the value (its error is dropped).
Stored(w) == [panic |-> w.st = "panic", data |-> w.upd]

\* setNestedField with a bug: the converted value is not stored
StoreConvertedDropped(d, field, c) == [panic |-> c.panic, data |-> d]

\* setNestedField from the converted value c on
StoreConverted(d, field, c) ==
    IF c.panic THEN [panic |-> TRUE, data |-> d]
    ELSE Stored(findNestedField(d, field, SetTo(c.v)))

\* setNestedField after its first findNestedField, which returned r
ConvertFor(d, field, src, r) ==
    IF r.st = "panic" THEN [panic |-> TRUE, data |-> d]
    ELSE IF r.st = "err" THEN [panic |-> FALSE, data |-> d]
    ELSE IF ~r.v.valid THEN [panic |-> TRUE, data |-> d]   \* val.Type()
    ELSE StoreConverted(d, field, stringToValue(src, r.v.n))

\* setNestedField(field, value)
setNestedField(d, field, src) ==
    ConvertFor(d, field, src, findNestedField(d, field, NoSet))

\* for _, value := range paramValue { f.setNestedField(param, value) }:
\* SetEach sets the first value, SetRest goes on from its result r.
RECURSIVE SetEach(_, _, _)
SetRest(r, param, rest) ==
    IF r.panic THEN r ELSE SetEach(r.data, param, rest)

SetEach(d, param, paramValue) ==
    IF paramValue = <<>> THEN [panic |-> FALSE, data |-> d]
    ELSE SetRest(setNestedField(d, param, Head(paramValue)), param, Tail(paramValue))

\* The loop body with a bug: the key is not looked up in f.Fields
\* The loop body after getNestedField returned r for a declared key.
FillResolved(d, param, paramValue, r) ==
    IF r.st = "panic" THEN [panic |-> TRUE, data |-> d]
    ELSE IF r.st = "err" THEN [panic |-> FALSE, data |-> d]    \* continue
    ELSE IF ~r.v.valid THEN [panic |-> TRUE, data |-> d]      \* fieldValue.Type()
    ELSE SetEach(d, param, paramValue)

\* The loop body with a bug: the key is not looked up in f.Fields
FillParamAnyKey(F, d, param, paramValue) ==
    FillResolved(d, param, paramValue, getNestedField(d, param))

\* The body of the loop of Fill for one submitted key.
FillParam(F, d, param, paramValue) ==
    IF param \notin DOMAIN F THEN [panic |-> FALSE, data |-> d]
    ELSE FillResolved(d, param, paramValue, getNestedField(d, param))

\* The loop of Fill over the submitted keys; a Go map is ranged over in an
\* order the runtime picks, here `order`.  FillLoop runs the body for the
\* first key, FillRest goes on from its result r.
RECURSIVE FillLoop(_, _, _, _)
FillRest(F, r, vals, rest) ==
    IF r.panic THEN r ELSE FillLoop(F, r.data, vals, rest)

FillLoop(F, d, vals, order) ==
    IF order = <<>> THEN [panic |-> FALSE, data |-> d]
    ELSE FillRest(F, FillParam(F, d, Head(order), vals[Head(order)]), vals, Tail(order))

\* The loop of validate over the declared fields, in the order `order`.
RECURSIVE ValidateLoop(_, _, _, _, _)
\* The loop body after the validator returned res for the field `name`.
Validated(F, d, errs, name, rest, anyError, res) ==
    IF res.panic THEN [ret |-> "panic", errors |-> errs]
    ELSE IF ~res.errs.isnil                                  \* errors != nil
         THEN ValidateLoop(F, d, Put(errs, name, res.errs), rest, TRUE)
         ELSE ValidateLoop(F, d, errs, rest, anyError)

\* The loop body after getNestedField returned r for the field `name`.
ValidateResolved(F, d, errs, name, rest, anyError, r) ==
    IF r.st = "panic" THEN [ret |-> "panic", errors |-> errs]
    ELSE IF r.st = "err" THEN [ret |-> "false", errors |-> errs]
    ELSE IF F[name].Validator.kind = "nil"
         THEN ValidateLoop(F, d, errs, rest, anyError)
    ELSE IF ~r.v.valid THEN [ret |-> "panic", errors |-> errs]  \* value.Interface()
    ELSE Validated(F, d, errs, name, rest, anyError,
                   Validate(F[name].Validator, r.v.n))

ValidateLoop(F, d, errs, order, anyError) ==
    IF order = <<>>
    THEN [ret |-> IF anyError THEN "false" ELSE "true", errors |-> errs]
    ELSE ValidateResolved(F, d, errs, Head(order), Tail(order), anyError,
                          getNestedField(d, Head(order)))

validate(F, d, errs, order) == ValidateLoop(F, d, errs, order, FALSE)

\* Fill(vals): the loop over the submitted keys in the order `order`, then
\* validate, ranging over the fields in the order `vorder`.  A panic of the
\* loop leaves the writes made before it.
\* return f.validate(), v its result on the container nd
Returned(nd, v) == [data |-> nd, errors |-> v.errors, ret |-> v.ret]

\* Fill after its loop, which ended as w
AfterFillLoop(F, errs, vorder, w) ==
    IF w.panic THEN [data |-> w.data, errors |-> errs, ret |-> "panic"]
    ELSE Returned(w.data, validate(F, w.data, errs, vorder))

FillOf(F, d, errs, vals, order, vorder) ==
    AfterFillLoop(F, errs, vorder, FillLoop(F, d, vals, order))

----------------------------------------------------------------------------
(* AddError *)

\* AddError with a bug: the message replaces the list
AddErrorReplacing(errs, field, error) == Put(errs, field, Slice(<<error>>))

\* f.AddError(field, error) on the error map errs
AddErrorTo(errs, field, error) ==
    LET made == IF At(errs, field).isnil THEN Put(errs, field, Slice(<<>>)) ELSE errs
    IN  Put(made, field, Slice(Append(At(made, field).items, error)))

----------------------------------------------------------------------------
(* RenderData *)

\* strconv-style decimal numeral of n, as fmt prints an int with %v
RECURSIVE Itoa(_)
Itoa(n) ==
    IF n < 0 THEN <<"-">> \o Itoa(0 - n)
    ELSE IF n < 10 THEN <<Digits[n + 1]>>
    ELSE Itoa(n \div 10) \o <<Digits[(n % 10) + 1]>>

\* html.EscapeString
RECURSIVE EscapeString(_)
EscapeString(s) ==
    IF s = <<>> THEN <<>>
    ELSE (CASE Head(s) = "&" -> <<"&", "a", "m", "p", ";">>
            [] Head(s) = "'" -> <<"&", "#", "3", "9", ";">>
            [] Head(s) = "<" -> <<"&", "l", "t", ";">>
            [] Head(s) = ">" -> <<"&", "g", "t", ";">>
            [] Head(s) = "\"" -> <<"&", "#", "3", "4", ";">>
            [] OTHER -> <<Head(s)>>) \o EscapeString(Tail(s))

\* fmt.Sprintf("%v", value): the text of a string, an int or a bool; a
\* pointer prints as its address and a map or struct as its contents, which
\* the model keeps opaque.
Sprint(n) ==
    CASE n.kind = "string" -> n.s
      [] n.kind = "int" -> Itoa(n.i)
      [] n.kind = "bool" -> IF n.b THEN <<"t", "r", "u", "e">> ELSE <<"f", "a", "l", "s", "e">>
      [] n.kind = "ptr" -> <<"0", "x">>
      [] OTHER -> <<"{", "}">>

\* The widgets: "nil" is a Field without widget (rendered by Text),
\* "*FileWidget" is new(FileWidget), "FileWidget" is the value FileWidget(0),
\* which implements Widget as well (HTML has a value receiver).
Widgets == {"nil", "*FileWidget", "FileWidget"}

\* widget.HTML(name, value)
HTML(widget, name, n) ==
    CASE widget \in {"*FileWidget", "FileWidget"} ->
         [type |-> "file", id |-> name, value |-> <<>>]
      [] OTHER -> [type |-> "text", id |-> name, value |-> EscapeString(Sprint(n))]

MultipartAttr == "enctype=\"multipart/form-data\""

\* The round with a bug: a field that does not resolve fails the render
RenderFieldFailing(F, d, errs, name) ==
    LET r == getNestedField(d, name)
    IN  IF r.st # "ok" \/ ~r.v.valid
        THEN [panic |-> TRUE, entry |-> <<>>]
        ELSE [panic |-> FALSE,
              entry |-> [Label |-> F[name].Label,
                         LabelTag |-> [for |-> name, text |-> F[name].Label],
                         Input |-> HTML(F[name].Widget, name, r.v.n),
                         Help |-> F[name].Help,
                         Errors |-> At(errs, name)]]

\* One round of the loop of RenderData.
RenderField(F, d, errs, name) ==
    LET r == getNestedField(d, name)
        value == IF r.st = "err" THEN Value(StringV(<<>>)) ELSE r.v
    IN  IF r.st = "panic" \/ ~value.valid
        THEN [panic |-> TRUE, entry |-> <<>>]
        ELSE [panic |-> FALSE,
              entry |-> [Label |-> F[name].Label,
                         LabelTag |-> [for |-> name, text |-> F[name].Label],
                         Input |-> HTML(F[name].Widget, name, value.n),
                         Help |-> F[name].Help,
                         Errors |-> At(errs, name)]]

RECURSIVE RenderLoop(_, _, _, _, _)
RenderLoop(F, d, errs, order, acc) ==
    IF order = <<>> THEN [panic |-> FALSE, fields |-> acc]
    ELSE LET r == RenderField(F, d, errs, Head(order))
         IN  IF r.panic THEN [panic |-> TRUE, fields |-> acc]
             ELSE RenderLoop(F, d, errs, Tail(order), Append(acc, r.entry))

NoSnapshot == [panic |-> FALSE, Fields |-> <<>>, Errors |-> NilSlice, EncTypeAttr |-> "none"]

\* RenderData, ranging over f.Fields in the order `order`.
RenderDataOf(F, d, errs, order) ==
    LET r == RenderLoop(F, d, errs, order, <<>>)
    IN  [panic |-> r.panic,
         Fields |-> r.fields,
         Errors |-> At(errs, sEmpty),
         EncTypeAttr |-> IF \E i \in 1..Len(order) : F[order[i]].Widget = "*FileWidget"
                         THEN MultipartAttr ELSE ""]

----------------------------------------------------------------------------
(* The forms of the model *)

Field(label, help, validator, widget) ==
    [Label |-> label, Help |-> help, Validator |-> validator, Widget |-> widget]

\* map[string]interface{} of TestData.Extra
ExtraMap ==
    MapV("iface", (sExtraField :> IfaceV(StringV(<<>>)))
               @@ (sNumber :> IfaceV(PtrV("int", IntV(0)))))

\* &TestData{}: a pointer to a struct
TestData ==
    PtrV("struct", StructV(<<FieldV(sTitle, StringV(<<>>)),
                             FieldV(sName, StringV(<<>>)),
                             FieldV(sAge, IntV(0)),
                             FieldV(sFlag, BoolV(FALSE)),
                             FieldV(sExtra, ExtraMap)>>))

\* a map[string]interface{} container, as in TestMapRender
MapData ==
    MapV("iface", (sTitle :> IfaceV(StringV(<<>>)))
               @@ (sName :> IfaceV(PtrV("string", StringV(<<>>))))
               @@ (sAge :> IfaceV(PtrV("int", IntV(0))))
               @@ (sCount :> IfaceV(IntV(0)))
               @@ (sFoo :> IfaceV(MapV("string", (sBar :> StringV(<<"e", "e">>))))))

\* a map[string]interface{} container with an entry under the key ""
EmptyKeyData ==
    MapV("iface", (sEmpty :> IfaceV(StringV(<<>>)))
               @@ (sName :> IfaceV(StringV(<<>>))))

\* Values NewForm may be handed that are neither a pointer to a struct nor
\* a map: nil, an int, a string, a struct (not a pointer to it), a pointer
\* to an int.
OtherData ==
    { Invalid, IntV(0), StringV(sFoo),
      StructV(<<FieldV(sName, StringV(<<>>))>>), PtrV("int", IntV(0)) }

NoFields == [k \in {} |-> Field("", "", NoValidator, "nil")]

Forms ==
    { [data |-> TestData,
       Fields |-> (sName :> Field("Your name", "Your full name", Required("Req!"), "nil"))
               @@ (sAge :> Field("Your age", "Years", Required("Req!"), "nil"))],
      [data |-> TestData,
       Fields |-> (sAge :> Field("Your age", "Years", NoValidator, "nil"))
               @@ (sFlag :> Field("Flag", "", NoValidator, "nil"))],
      [data |-> TestData,
       Fields |-> (Dot(sExtra, sExtraField) :> Field("Extra Field", "", NoValidator, "nil"))
               @@ (Dot(sExtra, sNumber) :> Field("Number", "", NoValidator, "*FileWidget"))],
      [data |-> TestData,
       Fields |-> (sName :> Field("Your name", "", NoMessages, "nil"))],
      [data |-> TestData,
       Fields |-> (sAGE :> Field("Your age", "Years", NoValidator, "nil"))],
      [data |-> TestData,
       Fields |-> (sMissing :> Field("Missing", "", Required("Req!"), "nil"))
               @@ (sName :> Field("Your name", "", Required("Req!"), "nil"))],
      [data |-> MapData,
       Fields |-> (sAge :> Field("Your age", "Years", Required("Req!"), "nil"))
               @@ (Dot(sFoo, sBar) :> Field("Bar", "Some foo's bar.", Required("Req!"), "nil"))],
      [data |-> MapData,
       Fields |-> (sCount :> Field("Count", "", NoValidator, "nil"))
               @@ (sName :> Field("Your name", "", Required("Req!"), "nil"))],
      [data |-> EmptyKeyData,
       Fields |-> (sEmpty :> Field("Any", "", Required("Req!"), "FileWidget"))],
      [data |-> TestData,
       Fields |-> (sName :> Field("Your name", "",
                                  And(<<Required("A"), NoMessages, Required("B")>>), "nil"))
               @@ (sFlag :> Field("Flag", "", And(<<>>), "nil"))] }
    \cup { [data |-> d, Fields |-> NoFields] : d \in OtherData }

\* The kind of the value a submitted string for key k is coerced to; "none"
\* for a key that names no location of the container.
TargetKind(d, k) ==
    LET r == getNestedField(d, k)
    IN  IF r.st # "ok" \/ ~r.v.valid THEN "none"
        ELSE IF r.v.n.kind = "ptr" THEN r.v.n.elem ELSE r.v.n.kind

\* The value lists submitted for a key, by the kind of its destination; one
\* list holds two values.
ValueLists(d, k) ==
    LET kind == TargetKind(d, k)
    IN  CASE kind = "int" -> {<<<<"1", "4">>>>, <<<<"0", "1", "4">>>>, <<<<"-", "7">>>>,
                             <<<<"o", "n">>>>}
          [] kind = "bool" -> {<<<<>>>>, <<<<"o", "n">>>>, <<<<"1">>>>}
          [] kind = "string" -> {<<<<>>>>, <<sFoo>>, <<sFoo, sBar>>}
          [] OTHER -> {<<<<"1", "4">>>>}

NoValues == [k \in {} |-> <<>>]

\* The keys a submission may hold: the declared names and, for a form of
\* one field, Title, which no form of the model declares and both
\* containers hold.
SubmitKeys(F) ==
    (DOMAIN F) \cup (IF Cardinality(DOMAIN F) = 1 THEN {sTitle} ELSE {})

RECURSIVE Submit(_, _)
Submit(K, d) ==
    IF K = {} THEN {NoValues}
    ELSE LET k == CHOOSE x \in K : TRUE
         IN  {(k :> l) @@ f : l \in ValueLists(d, k), f \in Submit(K \ {k}, d)}

\* The url.Values a Fill may be given.
Submissions(F, d) == UNION {Submit(K, d) : K \in SUBSET SubmitKeys(F)}

\* The orders in which a range over a map with the keys S may visit them.
Orders(S) ==
    {o \in [1..Cardinality(S) -> S] : \A i, j \in 1..Cardinality(S) : i # j => o[i] # o[j]}

\* The messages and the keys AddError is called with.
Messages == {"Foo"}
ErrorKeys == {sEmpty, sName}

\* A form takes at most MaxCalls calls of Fill and AddError.
MaxCalls == 2

NoArg == [field |-> <<>>, error |-> ""]

----------------------------------------------------------------------------
(* The state machine *)

\* NewForm with a bug: every pointer is accepted
NewFormAnyPointer(d, F) ==
    IF d.kind \in {"ptr", "map"} THEN "done" ELSE "panic"

\* NewForm(data, fields): "panic" unless data is a pointer to a struct or a
\* map.  (reflect.TypeOf(nil) is nil, and Kind() of it panics too.)
NewForm(d, F) ==
    IF d.kind = "invalid" THEN "panic"
    ELSE IF (d.kind # "ptr" \/ d.elem # "struct") /\ d.kind # "map" THEN "panic"
    ELSE "done"

\* NewForm has returned a form
Constructed == ~(op = "NewForm" /\ ret = "panic")

\* NewForm(data, fields) for the arguments of Forms
Init ==
    \E form \in Forms :
        /\ Fields = form.Fields
        /\ data = form.data
        /\ errors = NoErrors
        /\ op = "NewForm"
        /\ prev = "none"
        /\ values = NoValues
        /\ arg = NoArg
        /\ ret = NewForm(form.data, form.Fields)
        /\ preData = form.data
        /\ preErrors = NoErrors
        /\ snapshot = NoSnapshot
        /\ calls = 0

\* f.Fill(vals)
Fill ==
    /\ Constructed
    /\ calls < MaxCalls
    /\ \E vals \in Submissions(Fields, data) :
       \E order \in Orders(DOMAIN vals), vorder \in Orders(DOMAIN Fields) :
       \E r \in {FillOf(Fields, data, errors, vals, order, vorder)} :
           /\ data' = r.data
           /\ errors' = r.errors
           /\ ret' = r.ret
           /\ values' = vals
    /\ op' = "Fill"
    /\ prev' = "none"
    /\ arg' = NoArg
    /\ preData' = data
    /\ preErrors' = errors
    /\ snapshot' = NoSnapshot
    /\ calls' = calls + 1
    /\ UNCHANGED Fields

\* f.AddError(field, error)
AddError ==
    \E field \in ErrorKeys, error \in Messages :
        /\ Constructed
        /\ calls < MaxCalls
        /\ calls' = calls + 1
        /\ errors' = AddErrorTo(errors, field, error)
        /\ op' = "AddError"
        /\ prev' = "none"
        /\ arg' = [field |-> field, error |-> error]
        /\ ret' = "done"
        /\ values' = NoValues
        /\ preData' = data
        /\ preErrors' = errors
        /\ snapshot' = NoSnapshot
        /\ UNCHANGED <<Fields, data>>

\* f.RenderData(); the calls before it stay on record in values, arg, ret,
\* preData and preErrors.
RenderData ==
    /\ Constructed
    /\ op # "RenderData"
    /\ \E order \in Orders(DOMAIN Fields) :
           snapshot' = RenderDataOf(Fields, data, errors, order)
    /\ op' = "RenderData"
    /\ prev' = op
    /\ UNCHANGED <<Fields, data, errors, values, arg, ret, preData, preErrors, calls>>

Next == Fill \/ AddError \/ RenderData

Spec == Init /\ [][Next]_vars

----------------------------------------------------------------------------
(* Properties *)

\* the submitted keys that are declared field names
Written == (DOMAIN values) \cap (DOMAIN Fields)

\* the last string submitted for key k
LastOf(k) == values[k][Len(values[k])]

\* the value getNestedField reads at name in container d
ReadAt(d, name) == getNestedField(d, name).v.n

Resolves(d, name) == getNestedField(d, name).st = "ok"

\* the messages the validator of field name returns for the value the
\* field holds in container d; none for a field without validator
Produced(d, name) ==
    IF Fields[name].Validator.kind = "nil" THEN <<>>
    ELSE Validate(Fields[name].Validator, ReadAt(d, name)).errs.items

\* C1: for a form whose declared paths all resolve, Fill returns true if
\* and only if the validator of every declared field accepts the value the
\* field holds after the writes, where accepting is returning no message
\* (an absent or an empty list); a field without validator never fails.
C1_FillTrueIffAllAccept ==
    (/\ op = "Fill"
     /\ ret \in {"true", "false"}
     /\ \A name \in DOMAIN Fields : Resolves(preData, name))
    => (ret = "true" <=> \A name \in DOMAIN Fields : Produced(data, name) = <<>>)

\* C2: the errors are recomputed by every validation pass: RenderData
\* right after a Fill shows for each field exactly the messages its
\* validator produced in that Fill, whatever earlier Fill and AddError
\* calls left in the error map.
C2_ErrorsRecomputed ==
    (/\ op = "RenderData"
     /\ prev = "Fill"
     /\ ret \in {"true", "false"}
     /\ ~snapshot.panic
     /\ \A name \in DOMAIN Fields : Resolves(data, name))
    => \A i \in 1..Len(snapshot.Fields) :
           snapshot.Fields[i].Errors.items
               = Produced(data, snapshot.Fields[i].LabelTag.for)

\* C3: when the string submitted for an integer field does not parse as an
\* integer, Fill returns false, records an error under the field's name and
\* leaves the field as it was instead of storing 0, with or without a
\* validator on the field.
C3_IntParseFailureReported ==
    op = "Fill"
    => \A k \in Written :
           (/\ TargetKind(preData, k) = "int"
            /\ Len(values[k]) = 1
            /\ ~ParseInt(LastOf(k)).ok)
           => /\ ret = "false"
              /\ At(errors, k).items # <<>>
              /\ ReadAt(data, k) = ReadAt(preData, k)

UpperCase == <<"A", "B", "C", "D", "E", "F", "G", "H", "I", "J", "K", "L", "M",
               "N", "O", "P", "Q", "R", "S", "T", "U", "V", "W", "X", "Y", "Z">>
LowerCase == <<"a", "b", "c", "d", "e", "f", "g", "h", "i", "j", "k", "l", "m",
               "n", "o", "p", "q", "r", "s", "t", "u", "v", "w", "x", "y", "z">>

ToLower(c) ==
    IF \E i \in 1..Len(UpperCase) : UpperCase[i] = c
    THEN LowerCase[CHOOSE i \in 1..Len(UpperCase) : UpperCase[i] = c]
    ELSE c

\* a and b are equal up to the case of their letters
EqualFold(a, b) ==
    Len(a) = Len(b) /\ \A i \in 1..Len(a) : ToLower(a[i]) = ToLower(b[i])

\* the index of the first field of the struct whose name matches part in
\* some casing, 0 when there is none
FirstFoldMatch(fs, part) ==
    IF \E i \in 1..Len(fs) : EqualFold(fs[i].name, part)
    THEN CHOOSE i \in 1..Len(fs) :
             /\ EqualFold(fs[i].name, part)
             /\ \A j \in 1..(i - 1) : ~EqualFold(fs[j].name, part)
    ELSE 0

\* name is a field name of the struct container d in some casing
FoldMatches(d, name) ==
    /\ d.kind = "ptr"
    /\ d.p.kind = "struct"
    /\ DotIndex(name) = 0
    /\ FirstFoldMatch(d.p.f, name) # 0

\* C4: Fill panics whenever the path of a declared field does not resolve
\* in the container (it names no location of it, in any casing), whether
\* or not the field is among the submitted keys.
C4_UnresolvedFieldPanics ==
    (/\ op = "Fill"
     /\ \E name \in DOMAIN Fields :
            ~Resolves(preData, name) /\ ~FoldMatches(preData, name))
    => ret = "panic"

\* C5: at a struct, a path segment matches the field names without regard
\* to case, the first match winning: a field declared as AGE on a struct
\* with the field Age resolves to it, for the read and for the write of
\* Fill, and only a segment that matches no field in any casing fails.
C5_CaseInsensitiveMatch ==
    (op = "Fill" /\ ret # "panic" /\ preData.kind = "ptr" /\ preData.p.kind = "struct")
    => \A name \in DOMAIN Fields :
           LET i == FirstFoldMatch(preData.p.f, name)
           IN  (DotIndex(name) = 0)
               => /\ Resolves(data, name) <=> i # 0
                  /\ (i # 0 /\ name \in Written)
                     => data.p.f[i].v = stringToValue(LastOf(name), preData.p.f[i].v).v

\* C6: for a boolean destination Fill stores true for every submitted
\* string that is not empty ("on", "false" and "0" included) and false for
\* the empty string.
C6_NonEmptyIsTrue ==
    (op = "Fill" /\ ret # "panic")
    => \A k \in Written :
           TargetKind(preData, k) = "bool"
           => ReadAt(data, k) = BoolV(LastOf(k) # <<>>)

\* the segments of name but the last, and the last
ParentParts(name) == SubSeq(Split(name), 1, Len(Split(name)) - 1)
LastPart(name) == Split(name)[Len(Split(name))]

\* the node the segments parts lead to in container d
NodeAt(d, parts) == Walk(d, FALSE, parts, NoSet).v.n

\* the declared string field k lies in a map nested in the container
InNestedMap(d, k) ==
    /\ Len(Split(k)) > 1
    /\ NodeAt(d, ParentParts(k)).kind = "map"
    /\ TargetKind(d, k) = "string"

\* C7: for a declared string field at a dotted path whose parent is a map
\* nested in the container, Fill with the value v sets the map entry named
\* by the last segment and no other entry of that map, the read of the path
\* returns v, and RenderData hands v to the field's widget.
C7_DottedRoundTrip ==
    /\ (op = "Fill" /\ ret # "panic")
       => \A k \in Written :
              InNestedMap(preData, k)
              => /\ getNestedField(data, k).st = "ok"
                 /\ ReadAt(data, k) = StringV(LastOf(k))
                 /\ NodeAt(data, ParentParts(k)).m[LastPart(k)] \in
                        {StringV(LastOf(k)), IfaceV(StringV(LastOf(k)))}
                 /\ \A e \in DOMAIN NodeAt(preData, ParentParts(k)).m :
                        (\A j \in Written : ParentParts(j) \o <<e>> # Split(j))
                        => NodeAt(data, ParentParts(k)).m[e]
                               = NodeAt(preData, ParentParts(k)).m[e]
                 /\ DOMAIN NodeAt(data, ParentParts(k)).m
                        = DOMAIN NodeAt(preData, ParentParts(k)).m
    /\ (op = "RenderData" /\ prev = "Fill" /\ ret # "panic" /\ ~snapshot.panic)
       => \A k \in Written : \A i \in 1..Len(snapshot.Fields) :
              (/\ InNestedMap(preData, k)
               /\ snapshot.Fields[i].LabelTag.for = k
               /\ snapshot.Fields[i].Input.type = "text")
              => snapshot.Fields[i].Input.value = LastOf(k)

C7_Witness ==
    /\ op = "RenderData"
    /\ prev = "Fill"
    /\ Dot(sExtra, sExtraField) \in Written
    /\ values[Dot(sExtra, sExtraField)] = <<sFoo>>
    /\ InNestedMap(preData, Dot(sExtra, sExtraField))
    /\ ReadAt(preData, Dot(sExtra, sExtraField)) = StringV(<<>>)
    /\ ReadAt(data, Dot(sExtra, sExtraField)) = StringV(sFoo)
    /\ \E i \in 1..Len(snapshot.Fields) : snapshot.Fields[i].Input.value = sFoo

\* the integers whose decimal numerals the property ranges over
Numerals == -20..20

\* C8: for an integer destination (an int field of a struct, a map entry
\* holding an int or a pointer to an int) and a submitted string that is
\* the decimal numeral of n, the value at the path after Fill is the int n.
C8_DecimalNumeralStored ==
    (op = "Fill" /\ ret # "panic")
    => \A k \in Written : \A n \in Numerals :
           (TargetKind(preData, k) = "int" /\ LastOf(k) = Itoa(n))
           => ReadAt(data, k) = IntV(n)

C8_Witness ==
    /\ op = "Fill"
    /\ Dot(sExtra, sNumber) \in Written
    /\ sAge \notin DOMAIN Fields
    /\ LastOf(Dot(sExtra, sNumber)) = <<"1", "4">>
    /\ ReadAt(preData, Dot(sExtra, sNumber)) = PtrV("int", IntV(0))
    /\ ReadAt(data, Dot(sExtra, sNumber)) = IntV(14)

\* the submission without the keys that are not declared field names
DeclaredOnly == [k \in Written |-> values[k]]

\* what Fill may leave when given vals in the state before the last call
Outcomes(vals) ==
    {FillOf(Fields, preData, preErrors, vals, order, vorder) :
        order \in Orders(DOMAIN vals), vorder \in Orders(DOMAIN Fields)}

\* C9: a submitted key that is no declared field name is ignored: Fill does
\* not write to the location it names, and the container, the error map and
\* the result are those of the same Fill without the key.
C9_UndeclaredKeysIgnored ==
    op = "Fill"
    => /\ \A k \in (DOMAIN values) \ (DOMAIN Fields) :
              /\ getNestedField(data, k).st = getNestedField(preData, k).st
              /\ getNestedField(data, k).v = getNestedField(preData, k).v
       /\ [data |-> data, errors |-> errors, ret |-> ret] \in Outcomes(DeclaredOnly)

C9_Witness ==
    /\ op = "Fill"
    /\ sTitle \in DOMAIN values
    /\ sTitle \notin DOMAIN Fields
    /\ values[sTitle] = <<sFoo>>
    /\ sName \in Written
    /\ ReadAt(data, sName) = StringV(sFoo)
    /\ ReadAt(data, sTitle) = StringV(<<>>)

\* C10: AddError(name, msg) appends msg to the end of the list under name
\* (the whole-form list for the empty name) and changes no other list;
\* RenderData right after it shows the lists of the error map, the message
\* last in the field's Errors or in the top-level Errors; a new form shows
\* no errors.
C10_AddErrorAppends ==
    /\ op = "AddError"
       => /\ At(errors, arg.field)
                 = Slice(Append(At(preErrors, arg.field).items, arg.error))
          /\ DOMAIN errors = (DOMAIN preErrors) \cup {arg.field}
          /\ \A k \in (DOMAIN errors) \ {arg.field} : errors[k] = preErrors[k]
    /\ (op = "RenderData" /\ prev = "AddError" /\ ~snapshot.panic)
       => /\ arg.field = sEmpty
                => snapshot.Errors.items
                       = Append(At(preErrors, sEmpty).items, arg.error)
          /\ \A i \in 1..Len(snapshot.Fields) :
                 LET name == snapshot.Fields[i].LabelTag.for
                 IN  snapshot.Fields[i].Errors.items
                         = IF name = arg.field
                           THEN Append(At(preErrors, name).items, arg.error)
                           ELSE At(preErrors, name).items
    /\ op = "NewForm" => errors = NoErrors
    /\ (op = "RenderData" /\ prev = "NewForm" /\ ~snapshot.panic)
       => /\ snapshot.Errors.items = <<>>
          /\ \A i \in 1..Len(snapshot.Fields) : snapshot.Fields[i].Errors.items = <<>>

C10_Witness ==
    /\ op = "RenderData"
    /\ prev = "AddError"
    /\ arg = [field |-> sName, error |-> "Foo"]
    /\ At(preErrors, sName).items = <<"Req!">>
    /\ \E i \in 1..Len(snapshot.Fields) :
           /\ snapshot.Fields[i].LabelTag.for = sName
           /\ snapshot.Fields[i].Errors.items = <<"Req!", "Foo">>

\* the messages stored under key k of the error map errs
MessagesAt(errs, k) == {At(errs, k).items[i] : i \in 1..Len(At(errs, k).items)}

\* C11: whole-form errors are never produced automatically: every message
\* stored under the empty-string key was there before the last call or was
\* passed to AddError with the empty field name by it, on every form and
\* container, a map with an entry under "" and a field declared as ""
\* included.
C11_FormErrorsOnlyByAddError ==
    MessagesAt(errors, sEmpty) \subseteq
        MessagesAt(preErrors, sEmpty)
        \cup (IF op = "AddError" /\ arg.field = sEmpty THEN {arg.error} ELSE {})

\* C12: RenderData is deterministic: every snapshot a RenderData call may
\* return on the form as it is equals the one the last call returned, the
\* order of the per-field entries included.
C12_RenderDataDeterministic ==
    op = "RenderData"
    => \A order \in Orders(DOMAIN Fields) :
           RenderDataOf(Fields, data, errors, order) = snapshot

\* a declared field is configured with the file-upload widget, held by
\* value or by pointer
HasFileWidget == \E name \in DOMAIN Fields :
                     Fields[name].Widget \in {"*FileWidget", "FileWidget"}

\* C13: EncTypeAttr of RenderData is the multipart marker if and only if a
\* declared field is configured with the file-upload widget, and empty
\* otherwise, whatever was submitted and whatever the error map holds.
C13_EncTypeIffFileWidget ==
    (op = "RenderData" /\ ~snapshot.panic)
    => snapshot.EncTypeAttr = IF HasFileWidget THEN MultipartAttr ELSE ""

\* the entries of the snapshot for the field name
EntriesFor(name) ==
    {i \in 1..Len(snapshot.Fields) : snapshot.Fields[i].LabelTag.for = name}

PointerToStructOrMap(d) ==
    \/ d.kind = "ptr" /\ d.elem = "struct"
    \/ d.kind = "map"

RECURSIVE AllMessages(_, _)
AllMessages(vs, n) ==
    IF vs = <<>> THEN <<>>
    ELSE Validate(Head(vs), n).errs.items \o AllMessages(Tail(vs), n)

\* C16: And(v1, ..., vn) applied to a value returns the concatenation of
\* the message lists of all the vi in argument order, none skipped, and nil
\* (not an empty list) exactly when no vi returned a message; Fill stores
\* what it returns.
C16_AndCollectsAll ==
    (op = "Fill" /\ ret # "panic")
    => \A name \in DOMAIN Fields :
           (Fields[name].Validator.kind = "And" /\ Resolves(data, name))
           => LET r == Validate(Fields[name].Validator, ReadAt(data, name))
                  all == AllMessages(Fields[name].Validator.vs, ReadAt(data, name))
              IN  /\ ~r.panic
                  /\ r.errs.items = all
                  /\ r.errs.isnil <=> all = <<>>
                  /\ all # <<>> => At(errors, name) = Slice(all)

\* And(Required("A"), NoMessages, Required("B")) on the empty Name
C16_Witness ==
    /\ op = "Fill"
    /\ ret = "false"
    /\ sName \in DOMAIN Fields
    /\ Fields[sName].Validator = And(<<Required("A"), NoMessages, Required("B")>>)
    /\ ReadAt(data, sName) = StringV(<<>>)
    /\ At(errors, sName) = Slice(<<"A", "B">>)
    /\ Validate(Fields[sFlag].Validator, ReadAt(data, sFlag)).errs = NilSlice

\* C17: in a validation pass the list of a field whose validator returns
\* messages is replaced by exactly those messages, and the list of every
\* other key (a field that passes, the whole-form key) is left as it was.
C17_ValidateReplacesOnlyFailing ==
    (/\ op = "Fill"
     /\ ret \in {"true", "false"}
     /\ \A name \in DOMAIN Fields : Resolves(data, name))
    => /\ \A name \in DOMAIN Fields :
              At(errors, name).items
                  = IF Produced(data, name) # <<>> THEN Produced(data, name)
                    ELSE At(preErrors, name).items
       /\ \A k \in ((DOMAIN errors) \cup (DOMAIN preErrors)) \ (DOMAIN Fields) :
              At(errors, k).items = At(preErrors, k).items

\* the paths (as segments) of the locations of the container below node n
RECURSIVE Leaves(_)
Leaves(n) ==
    CASE n.kind = "ptr" /\ ~n.isnil -> Leaves(n.p)
      [] n.kind = "iface" /\ ~n.isnil -> Leaves(n.e)
      [] n.kind = "struct" ->
         UNION {{<<n.f[i].name>> \o p : p \in Leaves(n.f[i].v)} : i \in 1..Len(n.f)}
      [] n.kind = "map" /\ ~n.isnil ->
         UNION {{<<k>> \o p : p \in Leaves(n.m[k])} : k \in DOMAIN n.m}
      [] OTHER -> {<<>>}

\* the value a Fill of key k leaves at its location: the last submitted
\* string converted to the type found there (behind the pointer of a
\* pointer slot)
WrittenValues(k) ==
    LET t == ReadAt(preData, k)
        c == stringToValue(LastOf(k), t).v
    IN  IF t.kind = "ptr" THEN {c, PtrV(t.elem, c)} ELSE {c}

\* C18: Fill has no rollback and touches only submitted fields: when Fill
\* returns false every submitted value of a declared, resolvable key has
\* been written, and after every Fill each location that is not the target
\* of a submitted declared key holds what it held before.
C18_NoRollbackOnlySubmitted ==
    /\ (op = "Fill" /\ ret = "false")
       => \A k \in Written :
              Resolves(preData, k) => ReadAt(data, k) \in WrittenValues(k)
    /\ op = "Fill"
       => /\ Leaves(data) = Leaves(preData)
          /\ \A p \in Leaves(preData) :
                 (\A k \in Written : Split(k) # p)
                 => NodeAt(data, p) = NodeAt(preData, p)

\* Fill wrote Age and returned false because of Name
C18_Witness ==
    /\ op = "Fill"
    /\ ret = "false"
    /\ Written = {sAge}
    /\ LastOf(sAge) = <<"1", "4">>
    /\ ReadAt(preData, sAge) = IntV(0)
    /\ ReadAt(data, sAge) = IntV(14)
    /\ ReadAt(data, sName) = StringV(<<>>)
    /\ At(errors, sName).items = <<"Req!">>

====
